---- MODULE Spec2Model ----
(***************************************************************************)
(* Model of jules-scratch/verification/verify_agent_builder.py: a script   *)
(* that starts Playwright, launches a headless Chromium, opens a context   *)
(* and a page, navigates to the agent-build page, waits for its heading,   *)
(* writes a screenshot and closes the browser.                             *)
(*                                                                         *)
(* One process invocation ("run") executes the module body once.  A        *)
(* statement either completes and control moves to the next statement, or  *)
(* raises; the script has no try/except, so a raised exception leaves      *)
(* run(), is seen by the `with sync_playwright()` block's exit, and ends   *)
(* the process with a traceback.  The file system survives between runs.   *)
(***************************************************************************)
EXTENDS Integers, FiniteSets, Sequences, TLC

\* Number of invocations of the script that are explored.
MaxRuns == 2
\* Number of distinct renderings (image contents) the page can show.
NumContents == 2

\* line 17: the fixed path the screenshot is written to.
ScreenshotPath == "jules-scratch/verification/agent_builder_page.png"
\* A second path in the same directory, which the script never names.
Paths == {ScreenshotPath, "jules-scratch/verification/other.png"}

\* The statements of the script that call into Playwright, in program order.
Ops == <<"enter", "launch", "new_context", "new_page", "goto",
         "get_by_role", "expect", "screenshot", "close">>
OpSet == {Ops[i] : i \in 1..Len(Ops)}
OpIndex(op) == CHOOSE i \in 1..Len(Ops) : Ops[i] = op

\* What the world outside the script looks like during one run.
Env == [driverOK : BOOLEAN,        \* the Playwright driver can be started
        launchOK : BOOLEAN,        \* a headless Chromium can be started
        contextOK : BOOLEAN,       \* the browser can open a context
        pageOK : BOOLEAN,          \* the context can open a page
        reachable : BOOLEAN,       \* localhost:3000 serves the page
        headingVisible : BOOLEAN,  \* heading "AI Agent Build:" shows in time
        writable : BOOLEAN,        \* the screenshot path can be written
        bytes : 1..NumContents]    \* what the rendered page looks like

\* A file: which run wrote it (0: it predates every run) and its content.
Absent == [writer |-> -1, bytes |-> 0]
File(w, b) == [writer |-> w, bytes |-> b]
PriorFiles == {File(0, b) : b \in 1..NumContents}

VARIABLES
  runNo,       \* number of the current invocation
  env,         \* the environment of the current invocation
  pc,          \* the statement to execute next, "exit" at the end of the
               \* with block, "done" once the process has exited
  err,         \* the exception in flight, "none" if there is none
  failed,      \* the statement that raised it
  attempts,    \* per statement, how often this run has executed it
  succeeded,   \* the statements this run has completed
  playwright,  \* the Playwright driver: "none", "running", "stopped"
  browser,     \* the Chromium process: "none", "alive", "terminated"
  context,     \* the browser context: "none", "open", "closed"
  page,        \* the page: "none", "blank", "loaded", "closed"
  heading,     \* the locator bound at line 13: "none" or "locator"
  fs,          \* the file system: path -> file
  writes,      \* number of file writes of this run
  exitCode,    \* exit status of the process, -1 while it runs
  fsAtStart,   \* the file system as this run found it
  prevExit     \* exit status of the previous run, -1 if there was none

ctl == <<pc, err, failed, attempts, succeeded>>
resources == <<playwright, browser, context, page, heading>>
files == <<fs, writes>>
hist == <<runNo, env, fsAtStart, prevExit>>
vars == <<ctl, resources, files, exitCode, hist>>

PageOpen == page \in {"blank", "loaded"}

\* The class of failure a statement's exception stands for.
ErrorClass(op) ==
  CASE op \in {"enter", "launch", "new_context", "new_page"} -> "LaunchError"
    [] op = "goto" -> "NavigationError"
    [] op = "expect" -> "AssertionTimeout"
    [] op = "screenshot" -> "IOError"
    [] OTHER -> "Error"

\* Variant: the exception is caught at top level and the process ends normally.
ExitStatusSwallowed(e) == 0

\* Exit status of the interpreter: 1 after an unhandled exception, else 0.
ExitStatus(e) == IF e = "none" THEN 0 ELSE 1

\* A statement is executed.
Attempt(op) == attempts' = [attempts EXCEPT ![op] = @ + 1]

\* A statement completes: control moves to the next one.
Advance(op, next) ==
  /\ pc' = next
  /\ succeeded' = succeeded \cup {op}
  /\ UNCHANGED <<err, failed>>

\* A statement raises: nothing catches it inside run().
Raise(op) ==
  /\ err' = ErrorClass(op)
  /\ failed' = op
  /\ UNCHANGED <<pc, succeeded>>

TypeOK ==
  /\ runNo \in 1..MaxRuns
  /\ env \in Env
  /\ pc \in OpSet \cup {"exit", "done"}
  /\ err \in {"none", "LaunchError", "NavigationError", "AssertionTimeout", "IOError"}
  /\ failed \in OpSet \cup {"none"}
  /\ attempts \in [OpSet -> 0..1]
  /\ succeeded \subseteq OpSet
  /\ playwright \in {"none", "running", "stopped"}
  /\ browser \in {"none", "alive", "terminated"}
  /\ context \in {"none", "open", "closed"}
  /\ page \in {"none", "blank", "loaded", "closed"}
  /\ heading \in {"none", "locator"}
  /\ fs \in [Paths -> {Absent} \cup {File(w, b) : w \in 0..MaxRuns, b \in 1..NumContents}]
  /\ writes \in 0..1
  /\ exitCode \in {-1, 0, 1}
  /\ prevExit \in {-1, 0, 1}

Init ==
  /\ runNo = 1
  /\ env \in Env
  /\ pc = "enter"
  /\ err = "none"
  /\ failed = "none"
  /\ attempts = [op \in OpSet |-> 0]
  /\ succeeded = {}
  /\ playwright = "none"
  /\ browser = "none"
  /\ context = "none"
  /\ page = "none"
  /\ heading = "none"
  /\ fs \in [Paths -> {Absent} \cup PriorFiles]
  /\ writes = 0
  /\ exitCode = -1
  /\ fsAtStart = fs
  /\ prevExit = -1

\* line 21: sync_playwright().__enter__() starts the driver.  If it raises,
\* the with block is never entered and the process ends with the traceback.
Enter ==
  /\ pc = "enter" /\ err = "none"
  /\ Attempt("enter")
  /\ IF env.driverOK
       THEN /\ Advance("enter", "launch")
            /\ playwright' = "running"
            /\ UNCHANGED exitCode
       ELSE /\ err' = ErrorClass("enter")
            /\ failed' = "enter"
            /\ pc' = "done"
            /\ exitCode' = ExitStatus(err')
            /\ UNCHANGED <<succeeded, playwright>>
  /\ UNCHANGED <<browser, context, page, heading, files, hist>>

\* line 4: browser = playwright.chromium.launch(headless=True)
Launch ==
  /\ pc = "launch" /\ err = "none"
  /\ Attempt("launch")
  /\ IF env.launchOK
       THEN Advance("launch", "new_context") /\ browser' = "alive"
       ELSE Raise("launch") /\ UNCHANGED browser
  /\ UNCHANGED <<playwright, context, page, heading, files, exitCode, hist>>

\* Variant: page = browser.new_page(), which opens context and page at once.
NewContextShortcut ==
  /\ pc = "new_context" /\ err = "none"
  /\ Attempt("new_context")
  /\ IF env.contextOK /\ env.pageOK
       THEN /\ pc' = "goto"
            /\ succeeded' = succeeded \cup {"new_context"}
            /\ UNCHANGED <<err, failed>>
            /\ context' = "open"
            /\ page' = "blank"
       ELSE Raise("new_context") /\ UNCHANGED <<context, page>>
  /\ UNCHANGED <<playwright, browser, heading, files, exitCode, hist>>

\* line 5: context = browser.new_context()
NewContext ==
  /\ pc = "new_context" /\ err = "none"
  /\ Attempt("new_context")
  /\ IF env.contextOK
       THEN Advance("new_context", "new_page") /\ context' = "open"
       ELSE Raise("new_context") /\ UNCHANGED context
  /\ UNCHANGED <<playwright, browser, page, heading, files, exitCode, hist>>

\* Variant: a failure to open the page is reported and the script carries on.
NewPageCarryOn ==
  /\ pc = "new_page" /\ err = "none"
  /\ Attempt("new_page")
  /\ IF env.pageOK
       THEN Advance("new_page", "goto") /\ page' = "blank"
       ELSE /\ failed' = "new_page"
            /\ pc' = "goto"
            /\ UNCHANGED <<err, succeeded, page>>
  /\ UNCHANGED <<playwright, browser, context, heading, files, exitCode, hist>>

\* line 6: page = context.new_page()
NewPage ==
  /\ pc = "new_page" /\ err = "none"
  /\ Attempt("new_page")
  /\ IF env.pageOK
       THEN Advance("new_page", "goto") /\ page' = "blank"
       ELSE Raise("new_page") /\ UNCHANGED page
  /\ UNCHANGED <<playwright, browser, context, heading, files, exitCode, hist>>

\* Variant: a navigation error is reported and the script carries on.
GotoCarryOn ==
  /\ pc = "goto" /\ err = "none"
  /\ Attempt("goto")
  /\ IF env.reachable
       THEN Advance("goto", "get_by_role") /\ page' = "loaded"
       ELSE /\ failed' = "goto"
            /\ pc' = "get_by_role"
            /\ UNCHANGED <<err, succeeded, page>>
  /\ UNCHANGED <<playwright, browser, context, heading, files, exitCode, hist>>

\* line 10: page.goto("http://localhost:3000/app/agent-build/...")
Goto ==
  /\ pc = "goto" /\ err = "none"
  /\ Attempt("goto")
  /\ IF env.reachable
       THEN Advance("goto", "get_by_role") /\ page' = "loaded"
       ELSE Raise("goto") /\ UNCHANGED page
  /\ UNCHANGED <<playwright, browser, context, heading, files, exitCode, hist>>

\* line 13: heading = page.get_by_role("heading", name="AI Agent Build:")
\* builds a locator; nothing is looked up yet, so nothing can fail.
GetByRole ==
  /\ pc = "get_by_role" /\ err = "none"
  /\ Attempt("get_by_role")
  /\ Advance("get_by_role", "expect")
  /\ heading' = "locator"
  /\ UNCHANGED <<playwright, browser, context, page, files, exitCode, hist>>

\* Variant: the visibility check is tried a second time before giving up.
ToBeVisibleRetry ==
  /\ pc = "expect" /\ err = "none"
  /\ Attempt("expect")
  /\ IF env.headingVisible
       THEN Advance("expect", "screenshot")
       ELSE IF attempts["expect"] = 0
              THEN UNCHANGED <<pc, err, failed, succeeded>>
              ELSE Raise("expect")
  /\ UNCHANGED <<resources, files, exitCode, hist>>

\* Variant: a soft assertion, whose failure does not stop the script.
ToBeVisibleSoft ==
  /\ pc = "expect" /\ err = "none"
  /\ Attempt("expect")
  /\ IF env.headingVisible
       THEN Advance("expect", "screenshot")
       ELSE pc' = "screenshot" /\ UNCHANGED <<err, failed, succeeded>>
  /\ UNCHANGED <<resources, files, exitCode, hist>>

\* line 14: expect(heading).to_be_visible() polls until the heading shows or
\* the default wait window is over.
ToBeVisible ==
  /\ pc = "expect" /\ err = "none"
  /\ Attempt("expect")
  /\ IF env.headingVisible
       THEN Advance("expect", "screenshot")
       ELSE Raise("expect")
  /\ UNCHANGED <<resources, files, exitCode, hist>>

\* Variant: page.screenshot() without a path, which writes no file.
ScreenshotNoPath ==
  /\ pc = "screenshot" /\ err = "none"
  /\ Attempt("screenshot")
  /\ Advance("screenshot", "close")
  /\ UNCHANGED <<resources, files, exitCode, hist>>

\* Variant: an existing screenshot is kept and the new one gets a fresh name.
ScreenshotFreshName ==
  /\ pc = "screenshot" /\ err = "none"
  /\ Attempt("screenshot")
  /\ IF env.writable
       THEN /\ Advance("screenshot", "close")
            /\ \E p \in Paths :
                 /\ IF fs[ScreenshotPath] = Absent
                      THEN p = ScreenshotPath
                      ELSE p # ScreenshotPath
                 /\ fs' = [fs EXCEPT ![p] = File(runNo, env.bytes)]
            /\ writes' = writes + 1
       ELSE Raise("screenshot") /\ UNCHANGED files
  /\ UNCHANGED <<resources, exitCode, hist>>

\* line 17: page.screenshot(path=...) renders the page and writes the image
\* to the fixed path, replacing whatever file is there.
Screenshot ==
  /\ pc = "screenshot" /\ err = "none"
  /\ Attempt("screenshot")
  /\ IF env.writable
       THEN /\ Advance("screenshot", "close")
            /\ fs' = [fs EXCEPT ![ScreenshotPath] = File(runNo, env.bytes)]
            /\ writes' = writes + 1
       ELSE Raise("screenshot") /\ UNCHANGED files
  /\ UNCHANGED <<resources, exitCode, hist>>

\* Variant: only the browser process is ended; context and page stay marked open.
BrowserCloseProcessOnly ==
  /\ pc = "close" /\ err = "none"
  /\ Attempt("close")
  /\ Advance("close", "exit")
  /\ browser' = "terminated"
  /\ UNCHANGED <<playwright, context, page, heading, files, exitCode, hist>>

\* line 19: browser.close() closes the browser with its contexts and pages.
BrowserClose ==
  /\ pc = "close" /\ err = "none"
  /\ Attempt("close")
  /\ Advance("close", "exit")
  /\ page' = "closed"
  /\ context' = "closed"
  /\ browser' = "terminated"
  /\ UNCHANGED <<playwright, heading, files, exitCode, hist>>

\* Variant: run(playwright) called without the with block: nothing stops the
\* driver, and a browser that run() did not close stays alive.
WithExitLeak ==
  /\ pc # "done"
  /\ pc = "exit" \/ err # "none"
  /\ pc' = "done"
  /\ exitCode' = ExitStatus(err)
  /\ UNCHANGED <<err, failed, attempts, succeeded, resources, files, hist>>

\* lines 21-22: the with block is left, after run() returned or with the
\* exception run() raised.  Its exit stops the Playwright driver, which
\* shuts down every browser it still runs; an exception is not swallowed,
\* so the interpreter ends with the traceback and a nonzero status.
WithExit ==
  /\ pc # "done"
  /\ pc = "exit" \/ err # "none"
  /\ pc' = "done"
  /\ playwright' = "stopped"
  /\ browser' = IF browser = "alive" THEN "terminated" ELSE browser
  /\ context' = IF context = "open" THEN "closed" ELSE context
  /\ page' = IF PageOpen THEN "closed" ELSE page
  /\ exitCode' = ExitStatus(err)
  /\ UNCHANGED <<err, failed, attempts, succeeded, heading, files, hist>>

\* The script is invoked again: a new process, the same file system.
StartRun ==
  /\ pc = "done"
  /\ runNo < MaxRuns
  /\ runNo' = runNo + 1
  /\ env' \in Env
  /\ pc' = "enter"
  /\ err' = "none"
  /\ failed' = "none"
  /\ attempts' = [op \in OpSet |-> 0]
  /\ succeeded' = {}
  /\ playwright' = "none"
  /\ browser' = "none"
  /\ context' = "none"
  /\ page' = "none"
  /\ heading' = "none"
  /\ writes' = 0
  /\ exitCode' = -1
  /\ fsAtStart' = fs
  /\ prevExit' = exitCode
  /\ UNCHANGED fs

\* The steps of one invocation.
RunStep ==
  \/ Enter
  \/ Launch
  \/ NewContext
  \/ NewPage
  \/ Goto
  \/ GetByRole
  \/ ToBeVisible
  \/ Screenshot
  \/ BrowserClose
  \/ WithExit

Next == RunStep \/ StartRun

Spec == Init /\ [][Next]_vars

\* Every Playwright call returns or raises within its default timeout, and
\* the interpreter runs the script to its end.
FairSpec == Spec /\ WF_vars(RunStep)

\* The program point of the run, named as a state of the run's life cycle:
\* which acquisitions and working steps lie behind it.
State ==
  CASE pc \in {"enter", "launch"} -> "Init"
    [] pc = "new_context" -> "BrowserLaunched"
    [] pc = "new_page" -> "ContextOpened"
    [] pc = "goto" -> "PageOpened"
    [] pc \in {"get_by_role", "expect"} -> "Navigated"
    [] pc = "screenshot" -> "Asserted"
    [] pc = "close" -> "Captured"
    [] OTHER -> "Closed"

StateOrder == <<"Init", "BrowserLaunched", "ContextOpened", "PageOpened",
                "Navigated", "Asserted", "Captured", "Closed">>
StateIndex(st) == CHOOSE i \in 1..Len(StateOrder) : StateOrder[i] = st

Released == browser # "alive" /\ context # "open" /\ ~PageOpen
Acquisitions == {"enter", "launch", "new_context", "new_page"}
WorkingSteps == {"goto", "expect", "screenshot"}
EnvAllOK ==
  /\ env.driverOK /\ env.launchOK /\ env.contextOK /\ env.pageOK
  /\ env.reachable /\ env.headingVisible /\ env.writable

(***************************************************************************)
(* C1.  Teardown is unconditional: a run that has ended, whether it        *)
(* returned normally or failed at navigate, locate-and-assert or capture,  *)
(* has its page and context closed and its browser process terminated; no  *)
(* terminal state has the browser process alive.                           *)
(***************************************************************************)
TeardownUnconditional == pc = "done" => Released

TeardownWitness ==
  /\ pc = "done"
  /\ failed = "expect"
  /\ browser = "terminated" /\ context = "closed" /\ page = "closed"

(***************************************************************************)
(* C2.  Acquisition is scoped: when starting the driver, the browser, the  *)
(* context or the page fails, the run performs no navigate, assert or      *)
(* capture (and writes no file), and when it has ended everything acquired *)
(* before the failing step is released; a context is never left open by a  *)
(* browser that has gone.                                                  *)
(***************************************************************************)
AcquisitionScoped ==
  failed \in Acquisitions =>
    /\ \A op \in {"goto", "get_by_role", "expect", "screenshot", "close"} :
         attempts[op] = 0
    /\ fs = fsAtStart
    /\ context = "open" => browser = "alive"
    /\ pc = "done" => Released /\ exitCode = 1

AcquisitionWitness ==
  /\ pc = "done"
  /\ failed = "new_page"
  /\ browser = "terminated" /\ context = "closed" /\ page = "none"

(***************************************************************************)
(* C3.  If navigation fails, the file system is exactly as the run found   *)
(* it (the screenshot is neither created nor modified), and the run ends   *)
(* with a nonzero exit code.                                               *)
(***************************************************************************)
NavigationFailureLeavesFile ==
  failed = "goto" =>
    /\ fs = fsAtStart
    /\ pc = "done" => exitCode \notin {-1, 0}

NavigationFailureWitness ==
  /\ pc = "done"
  /\ failed = "goto"
  /\ err = "NavigationError"
  /\ fs[ScreenshotPath] # Absent
  /\ exitCode = 1

(***************************************************************************)
(* C4.  When every step succeeds (the environment lets the driver and the  *)
(* browser start, the target is reachable, the heading becomes visible,    *)
(* the path is writable), the run eventually terminates with exit code 0   *)
(* and the screenshot at the fixed path is the one this run wrote.         *)
(***************************************************************************)
SuccessTerminates ==
  \A r \in 1..MaxRuns :
    (runNo = r /\ pc = "enter" /\ EnvAllOK)
      ~> (/\ runNo = r
          /\ pc = "done"
          /\ exitCode = 0
          /\ fs[ScreenshotPath] = File(r, env.bytes))

SuccessWitness ==
  /\ pc = "done"
  /\ EnvAllOK
  /\ exitCode = 0
  /\ fs[ScreenshotPath] = File(runNo, env.bytes)

(***************************************************************************)
(* C5.  A run that has ended has exactly one of two outcomes: success      *)
(* (exit code 0, no error, every statement completed, the screenshot       *)
(* written by this run), or failure (nonzero exit code, the error class of *)
(* the one statement that failed, which was executed once, everything      *)
(* before it completed and nothing after it executed).                     *)
(***************************************************************************)
OutcomeSuccess ==
  /\ exitCode = 0
  /\ err = "none" /\ failed = "none"
  /\ succeeded = OpSet
  /\ fs[ScreenshotPath] = File(runNo, env.bytes)

OutcomeFailure ==
  /\ exitCode \notin {-1, 0}
  /\ failed \in Acquisitions \cup WorkingSteps
  /\ \/ failed \in Acquisitions /\ err = "LaunchError"
     \/ failed = "goto" /\ err = "NavigationError"
     \/ failed = "expect" /\ err = "AssertionTimeout"
     \/ failed = "screenshot" /\ err = "IOError"
  /\ attempts[failed] = 1
  /\ \A op \in OpSet :
       /\ OpIndex(op) < OpIndex(failed) => op \in succeeded
       /\ OpIndex(op) >= OpIndex(failed) => op \notin succeeded
       /\ OpIndex(op) > OpIndex(failed) => attempts[op] = 0

OutcomeExclusive ==
  pc = "done" =>
    /\ OutcomeSuccess \/ OutcomeFailure
    /\ ~(OutcomeSuccess /\ OutcomeFailure)

OutcomeWitness ==
  /\ pc = "done"
  /\ failed = "screenshot"
  /\ err = "IOError"
  /\ exitCode = 1

(***************************************************************************)
(* C6.  No recovery and no retry: no statement is executed more than once  *)
(* in a run, and once a statement has failed the run executes no further   *)
(* statement and writes no file; the error stays until the process ends.   *)
(***************************************************************************)
NoRecoveryNoRetry ==
  /\ [](\A op \in OpSet : attempts[op] <= 1)
  /\ [][(failed # "none" /\ runNo' = runNo) =>
          /\ attempts' = attempts
          /\ succeeded' = succeeded
          /\ fs' = fs
          /\ failed' = failed /\ err' = err /\ err # "none"
          /\ pc' = "done"]_vars

NoRetryWitness ==
  /\ pc = "done"
  /\ failed = "expect"
  /\ attempts["expect"] = 1
  /\ attempts["screenshot"] = 0
  /\ attempts["close"] = 0

(***************************************************************************)
(* C7.  Re-running is an idempotent overwrite: after two successful runs   *)
(* in a row the fixed path holds the screenshot of the second run, with    *)
(* that run's content whatever the first run left there, it is the only    *)
(* file a run has written, and every other path is as it was.              *)
(***************************************************************************)
IdempotentOverwrite ==
  (pc = "done" /\ exitCode = 0 /\ prevExit = 0) =>
    /\ fs[ScreenshotPath] = File(runNo, env.bytes)
    /\ Cardinality({p \in Paths : fs[p].writer >= 1}) = 1
    /\ \A p \in Paths \ {ScreenshotPath} : fs[p] = fsAtStart[p]
    /\ fsAtStart[ScreenshotPath].writer = runNo - 1

OverwriteWitness ==
  /\ pc = "done" /\ exitCode = 0 /\ prevExit = 0
  /\ fsAtStart[ScreenshotPath].writer = runNo - 1
  /\ fsAtStart[ScreenshotPath].bytes # fs[ScreenshotPath].bytes
  /\ fs[ScreenshotPath].writer = runNo

(***************************************************************************)
(* C8.  The run is a linear state machine over Init, BrowserLaunched,      *)
(* ContextOpened, PageOpened, Navigated, Asserted, Captured, Closed: a     *)
(* step of a run keeps the state, moves to the immediate successor with no *)
(* error in flight, or moves to Closed with one; so no state is revisited  *)
(* and Closed is left by nothing; and every run reaches Closed.            *)
(***************************************************************************)
LinearStep ==
  \/ State' = State
  \/ /\ err = "none" /\ err' = "none"
     /\ State # "Closed"
     /\ StateIndex(State') = StateIndex(State) + 1
  \/ /\ err' # "none"
     /\ State # "Closed"
     /\ State' = "Closed"

LinearStateMachine ==
  /\ [][runNo' = runNo => LinearStep]_vars
  /\ (State # "Closed") ~> (State = "Closed")

LinearWitness ==
  /\ pc = "done"
  /\ State = "Closed"
  /\ failed = "launch"
  /\ succeeded = {"enter"}

(***************************************************************************)
(* C9.  Release is in reverse acquisition order and one browser is used:   *)
(* a page is never open while its context is not, a context never open     *)
(* while its browser is not alive, a browser never alive while the driver  *)
(* is not running, and a run launches a browser at most once.              *)
(***************************************************************************)
ReverseRelease ==
  /\ PageOpen => context = "open"
  /\ context = "open" => browser = "alive"
  /\ browser = "alive" => playwright = "running"
  /\ attempts["launch"] <= 1
  /\ browser # "none" => attempts["launch"] = 1

ReverseReleaseWitness ==
  /\ pc = "exit"
  /\ "close" \in succeeded
  /\ page = "closed" /\ context = "closed" /\ browser = "terminated"
  /\ playwright = "running"

(***************************************************************************)
(* C10.  The screenshot is written at most once per run and only after     *)
(* navigation and the heading assertion succeeded: whenever the file at    *)
(* the fixed path is this run's, goto and expect have completed and the    *)
(* run has written once; and every write happens with the browser alive    *)
(* and the context and the loaded page open.                               *)
(***************************************************************************)
ScreenshotGuarded ==
  /\ [](writes <= 1)
  /\ []((writes > 0 \/ fs[ScreenshotPath].writer = runNo) =>
          /\ {"goto", "expect"} \subseteq succeeded
          /\ writes = 1
          /\ fs[ScreenshotPath].writer = runNo)
  /\ [][fs' # fs =>
          /\ browser = "alive" /\ context = "open" /\ page = "loaded"
          /\ browser' = "alive" /\ context' = "open" /\ page' = "loaded"
          /\ {"goto", "expect"} \subseteq succeeded]_vars

ScreenshotWitness ==
  /\ pc = "close"
  /\ fs[ScreenshotPath] = File(runNo, env.bytes)
  /\ writes = 1
  /\ browser = "alive" /\ context = "open" /\ page = "loaded"
====
